---- MODULE Spec2Model ----
(***************************************************************************)
(* Model of the useMLflowDarkTheme hook                                    *)
(* (mlflow/server/js/src/common/hooks/useMLflowDarkTheme.tsx).             *)
(*                                                                         *)
(* The hook keeps one boolean React state, isDarkTheme, initialised from   *)
(* localStorage and the prefers-color-scheme media query, and one effect   *)
(* with dependency list [isDarkTheme] that copies the state to the body    *)
(* class list and to localStorage.  The model follows one browser tab      *)
(* through page loads: mount, setter calls, renders, effect runs, changes  *)
(* of the system colour scheme and reloads.                                *)
(***************************************************************************)
EXTENDS Integers, Sequences, FiniteSets, TLC

\* Longest queue of setter calls that are not yet rendered.
MaxQueue == 2

\* localStorage.getItem returns null when the key holds no record.
NoRecord == "null"

\* Contents the key can have when the page loads: nothing, a value this hook
\* wrote earlier, or a string some other writer left there.
StoredValues == {NoRecord, "true", "false", "garbage"}

\* The updater functions the application passes to the setter.
Updaters == {"not", "id"}

\* React.SetStateAction<boolean>: a boolean or a function of the old state.
Actions == [kind : {"value"}, val : BOOLEAN, fn : {"id"}]
             \cup [kind : {"updater"}, val : {FALSE}, fn : Updaters]

DirectUpdate(v) == [kind |-> "value", val |-> v, fn |-> "id"]

UpdaterUpdate(f) == [kind |-> "updater", val |-> FALSE, fn |-> f]

ApplyFn(f, prev) == IF f = "not" THEN ~prev ELSE prev

\* Mutation: a direct value is handled as a request to flip the state.
ApplyUpdateToggle(u, prev) ==
    IF u.kind = "updater" THEN ApplyFn(u.fn, prev) ELSE ~prev

\* A queued SetStateAction applied to the state it meets.
ApplyUpdate(u, prev) ==
    IF u.kind = "updater" THEN ApplyFn(u.fn, prev) ELSE u.val

RECURSIVE FoldQueue(_, _)
FoldQueue(q, prev) ==
    IF q = <<>> THEN prev ELSE FoldQueue(Tail(q), ApplyUpdate(Head(q), prev))

\* Mutation: only the oldest queued call is honoured, later ones are dropped.
ProcessQueueFirstOnly(q, prev) ==
    IF q = <<>> THEN prev ELSE ApplyUpdate(Head(q), prev)

\* The queued calls are applied oldest first, each to the result of the last.
ProcessQueue(q, prev) == FoldQueue(q, prev)

\* Mutation: the fallback to the media query is forgotten.
InitialValueNoFallback(stored, sys) == stored = "true"

\* Mutation: a stored "false" is honoured as an explicit preference.
InitialValueHonoursFalse(stored, sys) ==
    IF stored = "true" THEN TRUE
    ELSE IF stored = "false" THEN FALSE
    ELSE sys

\* Mutation: the stored record is ignored.
InitialValueSystemOnly(stored, sys) == sys

\* The useState initializer.
InitialValue(stored, sys) ==
    IF stored = "true" THEN TRUE ELSE (sys \/ FALSE)

\* Mutation: the initializer is evaluated again on every render.
RenderStateRecomputed(prev, stored, sys) == InitialValue(stored, sys)

\* On a re-render useState hands back the kept state; the initializer and
\* with it the storage and the media query are not consulted again.
RenderState(prev, stored, sys) == prev

\* The dependency list [isDarkTheme]: the effect is scheduled when the value
\* differs from the one of the previous render.
DepsChanged(old, new) == old # new

\* Mutation: classList.toggle without the force argument.
ToggleClassNoForce(present, force) == ~present

\* classList.toggle(darkModeBodyClassName, force).
ToggleClass(present, force) == force

\* Mutation: every value is written as "true".
EncodePrefConst(b) == "true"

\* Mutation: light mode removes the record instead of writing "false".
EncodePrefRemove(b) == IF b THEN "true" ELSE NoRecord

\* isDarkTheme ? 'true' : 'false'
EncodePref(b) == IF b THEN "true" ELSE "false"

VARIABLES
    storage,        \* localStorage[darkModePrefLocalStorageKey]
    bodyClass,      \* document.body.classList contains darkModeBodyClassName
    systemDark,     \* matchMedia('(prefers-color-scheme: dark)').matches
    phase,          \* "unmounted" or "mounted"
    isDarkTheme,    \* the committed React state
    queue,          \* setter calls not yet rendered
    effectPending,  \* a commit scheduled the effect and it has not run yet
    synced,         \* the effect has run since this mount
    effectRan,      \* the effect has run at least once, in any page load
    lastCall,       \* the last setter call since this mount, if any
    expected,       \* the value the setter calls made so far amount to
    sameAsPrev,     \* the last call repeated the value of a completed call
    initStored,     \* the record the initializer read
    initSys,        \* the system signal the initializer read
    initValue,      \* the value the initializer returned
    explicit,       \* a render since this mount took the value from the setter
    userChoice,     \* the setter-made value the effect last persisted, if any
    derivedDark     \* a mount effect persisted a dark value that came from
                    \* the system signal, and the setter was not called since

vars == <<storage, bodyClass, systemDark, phase, isDarkTheme, queue,
          effectPending, synced, effectRan, lastCall, expected, sameAsPrev,
          initStored, initSys, initValue, explicit, userChoice, derivedDark>>

Quiescent == phase = "mounted" /\ queue = <<>> /\ ~effectPending

TypeOK ==
    /\ storage \in StoredValues
    /\ bodyClass \in BOOLEAN
    /\ systemDark \in BOOLEAN
    /\ phase \in {"unmounted", "mounted"}
    /\ isDarkTheme \in BOOLEAN
    /\ queue \in Seq(Actions) /\ Len(queue) <= MaxQueue
    /\ effectPending \in BOOLEAN

Init ==
    /\ storage \in StoredValues
    /\ bodyClass = FALSE
    /\ systemDark \in BOOLEAN
    /\ phase = "unmounted"
    /\ isDarkTheme = FALSE
    /\ queue = <<>>
    /\ effectPending = FALSE
    /\ synced = FALSE
    /\ effectRan = FALSE
    /\ lastCall = <<>>
    /\ expected = FALSE
    /\ sameAsPrev = FALSE
    /\ initStored = NoRecord
    /\ initSys = FALSE
    /\ initValue = FALSE
    /\ explicit = FALSE
    /\ userChoice = <<>>
    /\ derivedDark = FALSE

\* First render of the hook: the initializer runs, the result is committed
\* and the effect is scheduled.
Mount ==
    /\ phase = "unmounted"
    /\ phase' = "mounted"
    /\ isDarkTheme' = InitialValue(storage, systemDark)
    /\ effectPending' = TRUE
    /\ queue' = <<>>
    /\ synced' = FALSE
    /\ lastCall' = <<>>
    /\ expected' = isDarkTheme'
    /\ sameAsPrev' = FALSE
    /\ initStored' = storage
    /\ initSys' = systemDark
    /\ initValue' = isDarkTheme'
    /\ explicit' = FALSE
    /\ UNCHANGED <<storage, bodyClass, systemDark, effectRan, userChoice,
                   derivedDark>>

\* The body of the effect.
RunEffect ==
    /\ phase = "mounted"
    /\ effectPending
    /\ bodyClass' = ToggleClass(bodyClass, isDarkTheme)
    /\ storage' = EncodePref(isDarkTheme)
    /\ effectPending' = FALSE
    /\ synced' = TRUE
    /\ effectRan' = TRUE
    /\ userChoice' = IF explicit THEN <<isDarkTheme>> ELSE <<>>
    /\ derivedDark' = (derivedDark
                        \/ (lastCall = <<>> /\ initStored = NoRecord /\ initSys))
    /\ UNCHANGED <<systemDark, phase, isDarkTheme, queue, lastCall, expected,
                   sameAsPrev, initStored, initSys, initValue, explicit>>

\* setIsDarkTheme(v)
SetDirect(v) ==
    /\ phase = "mounted"
    /\ Len(queue) < MaxQueue
    /\ queue' = Append(queue, DirectUpdate(v))
    /\ lastCall' = <<DirectUpdate(v)>>
    /\ expected' = v
    /\ sameAsPrev' = (Quiescent /\ lastCall = <<DirectUpdate(v)>>)
    /\ derivedDark' = FALSE
    /\ UNCHANGED <<storage, bodyClass, systemDark, phase, isDarkTheme,
                   effectPending, synced, effectRan, initStored, initSys,
                   initValue, explicit, userChoice>>

\* setIsDarkTheme(prev => f(prev))
SetByUpdater(f) ==
    /\ phase = "mounted"
    /\ Len(queue) < MaxQueue
    /\ queue' = Append(queue, UpdaterUpdate(f))
    /\ lastCall' = <<UpdaterUpdate(f)>>
    /\ expected' = ApplyFn(f, expected)
    /\ sameAsPrev' = FALSE
    /\ derivedDark' = FALSE
    /\ UNCHANGED <<storage, bodyClass, systemDark, phase, isDarkTheme,
                   effectPending, synced, effectRan, initStored, initSys,
                   initValue, explicit, userChoice>>

\* A later render of the hook, caused by queued setter calls or by the
\* parent.  The scheduler runs a pending effect before it renders again.
Render ==
    /\ phase = "mounted"
    /\ ~effectPending
    /\ isDarkTheme' =
           ProcessQueue(queue, RenderState(isDarkTheme, storage, systemDark))
    /\ queue' = <<>>
    /\ effectPending' = DepsChanged(isDarkTheme, isDarkTheme')
    /\ explicit' = (explicit \/ queue # <<>>)
    /\ UNCHANGED <<storage, bodyClass, systemDark, phase, synced, effectRan,
                   lastCall, expected, sameAsPrev, initStored, initSys,
                   initValue, userChoice, derivedDark>>

\* The user or the operating system switches the colour scheme.
SystemChange ==
    /\ systemDark' = ~systemDark
    /\ UNCHANGED <<storage, bodyClass, phase, isDarkTheme, queue,
                   effectPending, synced, effectRan, lastCall, expected,
                   sameAsPrev, initStored, initSys, initValue, explicit,
                   userChoice, derivedDark>>

\* The page is reloaded: the document and the React state are discarded,
\* localStorage stays.
Reload ==
    /\ phase = "mounted"
    /\ phase' = "unmounted"
    /\ bodyClass' = FALSE
    /\ isDarkTheme' = FALSE
    /\ queue' = <<>>
    /\ effectPending' = FALSE
    /\ synced' = FALSE
    /\ lastCall' = <<>>
    /\ expected' = FALSE
    /\ sameAsPrev' = FALSE
    /\ explicit' = FALSE
    /\ UNCHANGED <<storage, systemDark, effectRan, initStored, initSys,
                   initValue, userChoice, derivedDark>>

Next ==
    \/ Mount
    \/ RunEffect
    \/ \E v \in BOOLEAN : SetDirect(v)
    \/ \E f \in Updaters : SetByUpdater(f)
    \/ Render
    \/ SystemChange
    \/ Reload

Spec == Init /\ [][Next]_vars

(***************************************************************************)
(* Properties                                                              *)
(***************************************************************************)

\* C1 as stated: once the effect has run after the mount, the body carries
\* the dark-mode class exactly when isDarkTheme is true, at every point,
\* also between a call of the setter and the effect run that follows it.
C1_ClassAlwaysMatchesState ==
    (phase = "mounted" /\ synced) => (bodyClass <=> isDarkTheme)

\* C1 amended: once the effect has run after the mount, the body carries the
\* dark-mode class exactly when isDarkTheme is true in every state in which
\* no effect run is pending.
C1_ClassMatchesStateWhenEffectDone ==
    (phase = "mounted" /\ synced /\ ~effectPending)
        => (bodyClass <=> isDarkTheme)

C1_Witness ==
    /\ phase = "mounted" /\ synced /\ ~effectPending
    /\ explicit /\ isDarkTheme # initValue
    /\ bodyClass = isDarkTheme

\* C2: after the setter was called with a boolean v, the call was rendered
\* and the effect has run, the body carries the dark-mode class exactly when
\* v is true and the storage key holds "true" for v = TRUE, "false" for
\* v = FALSE.
C2_SetterValueIsSynchronized ==
    \A v \in BOOLEAN :
        (Quiescent /\ lastCall = <<DirectUpdate(v)>>)
            => /\ bodyClass = v
               /\ v => storage = "true"
               /\ ~v => storage = "false"

C2_Witness ==
    /\ Quiescent
    /\ lastCall = <<DirectUpdate(FALSE)>>
    /\ initValue
    /\ ~bodyClass
    /\ storage = "false"

\* C3: the initializer returns true when the stored record is "true",
\* whatever the system signal, and returns the system signal when there is
\* no record.
C3_InitialValue ==
    phase = "mounted"
        => /\ initStored = "true" => initValue = TRUE
           /\ initStored = NoRecord => initValue = initSys

C3_Witness ==
    /\ phase = "mounted"
    /\ initStored = "true"
    /\ ~initSys
    /\ initValue

\* C4: when the effect has persisted a value made by the setter, the next
\* initialization returns that value, whatever the system signal.
C4_ReloadKeepsUserChoice ==
    [][(phase = "unmounted" /\ phase' = "mounted" /\ userChoice # <<>>)
          => isDarkTheme' = userChoice[1]]_vars

C6_RepeatedCallChangesNothing ==
    [][sameAsPrev' => (storage' = storage /\ bodyClass' = bodyClass)]_vars

C6_Witness ==
    /\ sameAsPrev
    /\ Quiescent
    /\ isDarkTheme # initValue

C8_StorageHoldsEncodedBoolean ==
    effectRan => storage \in {"true", "false"}

C8_Witness ==
    /\ effectRan
    /\ phase = "mounted"
    /\ initStored = "garbage"
    /\ storage = "false"

\* C9: after any sequence of setter calls, once every call is rendered and
\* no effect run is pending, isDarkTheme, the body class and the stored
\* record are the value the calls amount to in the order they were made.
C9_LastValueWins ==
    (Quiescent /\ lastCall # <<>>)
        => /\ isDarkTheme = expected
           /\ bodyClass = expected
           /\ expected => storage = "true"
           /\ ~expected => storage = "false"

C9_Witness ==
    /\ Quiescent
    /\ lastCall = <<UpdaterUpdate("not")>>
    /\ expected = initValue
    /\ explicit
    /\ userChoice = <<initValue>>

\* C10: the mount effect persists a value that came from the system signal:
\* after an initialization without a record and with a dark system signal
\* the key holds "true", and as long as the setter is not called every
\* later initialization returns true, whatever the system signal then is.
C10_DerivedDarkIsPersisted ==
    derivedDark
        => /\ storage = "true"
           /\ phase = "mounted" => (initValue = TRUE /\ isDarkTheme = TRUE)

C10_Witness ==
    /\ derivedDark
    /\ phase = "mounted"
    /\ initStored = "true"
    /\ ~initSys
    /\ isDarkTheme

====
